---- MODULE Spec2Model ----
(***************************************************************************)
(* Model of the St. Louis international-student driver's-licence guide     *)
(* page: the DMV locator filter (filterDmvs) and the comment board         *)
(* (CommentSection) with its localStorage load and save effects.           *)
(*                                                                         *)
(* A JavaScript string is a sequence of one-character strings, so that     *)
(* trim, toLowerCase and includes are computed character by character.     *)
(* The character U+00DF (sharp s) is written "U+00DF".                     *)
(***************************************************************************)
EXTENDS Integers, Sequences, FiniteSets, TLC

VARIABLES
  offices,       \* the office list handed to filterDmvs
  dmvQuery,      \* useState dmvQuery of the page
  filteredDmvs,  \* useMemo result: filterDmvs(offices, dmvQuery)
  storage,       \* the localStorage slot under STORAGE_KEY
  comments,      \* useState comments of CommentSection
  text,          \* useState text (the draft)
  type,          \* useState type (the selected kind)
  pc,            \* where the component is in its mount sequence
  queued,        \* state update queued by the load effect, applied at re-render
  pendingSave,   \* the save effect is scheduled (comments changed in a render)
  fatal,         \* an exception escaped an effect or a handler
  now,           \* the wall clock, epoch milliseconds
  loaded,        \* history: what the load effect of this mount read
  last,          \* history: the last operation and the state it started from
  nsubmit,       \* number of comments submitted so far (bounds the run)
  nreload,       \* number of page reloads so far (bounds the run)
  wrote,         \* history: how the save effects of this session ended
  previous,      \* history: the list the session before the reload held
  typed,         \* history: the clicks on the button since the draft was typed
  tab2,          \* a second tab's CommentSection over the same slot
  tabs           \* history: which tab wrote the slot last, and the race so far

filterVars == <<offices, dmvQuery, filteredDmvs>>
storeVars == <<storage, comments, text, type, pc, queued, pendingSave, fatal,
               now, loaded, last, nsubmit, nreload, wrote, previous,
               typed, tab2, tabs>>
vars == <<offices, dmvQuery, filteredDmvs, storage, comments, text, type, pc,
          queued, pendingSave, fatal, now, loaded, last, nsubmit, nreload,
          wrote, previous, typed, tab2, tabs>>

----------------------------------------------------------------------------
(* Bounds of the model.                                                    *)

MaxOffices == 2
MaxQueryLen == 3

----------------------------------------------------------------------------
(* JavaScript strings.                                                     *)

WhiteSpace == {" ", "\t", "\n"}

UpperLetters == <<"A","B","C","D","E","F","G","H","I","J","K","L","M",
                  "N","O","P","Q","R","S","T","U","V","W","X","Y","Z">>
LowerLetters == <<"a","b","c","d","e","f","g","h","i","j","k","l","m",
                  "n","o","p","q","r","s","t","u","v","w","x","y","z">>

SharpS == "U+00DF"

IndexIn(c, letters) == CHOOSE i \in DOMAIN letters : letters[i] = c

\* String.prototype.toLowerCase, one character: A-Z map to a-z, everything
\* else of the alphabet used here (digits, punctuation, a-z, sharp s) is kept.
toLowerCaseChar(c) ==
  IF \E i \in DOMAIN UpperLetters : UpperLetters[i] = c
  THEN LowerLetters[IndexIn(c, UpperLetters)]
  ELSE c

toLowerCase(s) == [i \in 1..Len(s) |-> toLowerCaseChar(s[i])]

RECURSIVE trimStart(_)
trimStart(s) ==
  IF s # <<>> /\ Head(s) \in WhiteSpace THEN trimStart(Tail(s)) ELSE s

RECURSIVE trimEnd(_)
trimEnd(s) ==
  IF s # <<>> /\ s[Len(s)] \in WhiteSpace
  THEN trimEnd(SubSeq(s, 1, Len(s) - 1))
  ELSE s

\* String.prototype.trim
trim(s) == trimEnd(trimStart(s))

\* String.prototype.includes
includes(s, q) ==
  \E i \in 0..(Len(s) - Len(q)) : SubSeq(s, i + 1, i + Len(q)) = q

----------------------------------------------------------------------------
(* The locator filter.                                                     *)

permitDmvs ==
  <<
    [name |-> <<"A","F","T","O","N"," ","(","0","0","3",")">>,
     address |-> <<"9","5","1","3"," ","G","r","a","v","o","i","s"," ","R","d",","," ","A","f","t","o","n">>,
     phone |-> <<"(","3","1","4",")"," ","6","3","1","-","1","3","1","1">>],
    [name |-> <<"A","R","N","O","L","D"," ","(","1","3","3",")">>,
     address |-> <<"1","0","8"," ","R","i","c","h","a","r","d","s","o","n"," ","C","r","o","s","s","i","n","g",","," ","A","r","n","o","l","d">>,
     phone |-> <<"(","6","3","6",")"," ","4","6","1","-","0","8","4","6">>],
    [name |-> <<"B","R","I","D","G","E","T","O","N"," ","(","1","6","0",")">>,
     address |-> <<"1","1","9","7","7"," ","S","t"," ","C","h","a","r","l","e","s"," ","R","o","c","k"," ","R","d"," ","S","u","i","t","e"," ","1","1","1",","," ","B","r","i","d","g","e","t","o","n">>,
     phone |-> <<"(","3","1","4",")"," ","2","9","8","-","0","1","2","7">>],
    [name |-> <<"C","E","N","T","R","A","L"," ","W","E","S","T"," ","E","N","D"," ","(","0","5","2",")">>,
     address |-> <<"4","0","4","1"," ","L","i","n","d","e","l","l"," ","B","l","v","d",","," ","S","t"," ","L","o","u","i","s">>,
     phone |-> <<"(","3","1","4",")"," ","9","2","5","-","8","3","3","0">>],
    [name |-> <<"C","H","E","S","T","E","R","F","I","E","L","D"," ","(","1","1","4",")">>,
     address |-> <<"1","4","8","3","8"," ","C","l","a","y","t","o","n"," ","R","o","a","d",","," ","C","h","e","s","t","e","r","f","i","e","l","d">>,
     phone |-> <<"(","6","3","6",")"," ","3","8","6","-","5","1","7","7">>],
    [name |-> <<"C","L","A","Y","T","O","N"," ","(","1","6","2",")">>,
     address |-> <<"1","4","1"," ","N"," ","M","e","r","a","m","e","c"," ","A","v","e"," ","S","t","e"," ","2","0","1",","," ","C","l","a","y","t","o","n">>,
     phone |-> <<"(","3","1","4",")"," ","4","9","9","-","7","2","2","3">>],
    [name |-> <<"C","R","E","V","E"," ","C","O","E","U","R"," ","(","1","4","2",")">>,
     address |-> <<"1","2","9","3","3"," ","O","l","i","v","e"," ","B","l","v","d",","," ","S","t"," ","L","o","u","i","s">>,
     phone |-> <<"(","3","1","4",")"," ","8","7","8","-","2","1","1","0">>],
    [name |-> <<"D","E","S"," ","P","E","R","E","S"," ","(","1","4","7",")">>,
     address |-> <<"1","0","8","0"," ","O","l","d"," ","D","e","s"," ","P","e","r","e","s"," ","R","o","a","d",","," ","D","e","s"," ","P","e","r","e","s">>,
     phone |-> <<"(","3","1","4",")"," ","9","0","9","-","1","5","1","4">>],
    [name |-> <<"F","L","O","R","I","S","S","A","N","T"," ","(","0","3","5",")">>,
     address |-> <<"6","5","0"," ","N"," ","H","w","y"," ","6","7",","," ","F","l","o","r","i","s","s","a","n","t">>,
     phone |-> <<"(","3","1","4",")"," ","4","7","4","-","5","0","4","5">>],
    [name |-> <<"H","A","R","V","E","S","T","E","R"," ","(","1","4","8",")">>,
     address |-> <<"4","2","1","7","-","1","9"," ","O","l","d"," ","H","w","y"," ","9","4"," ","S","o","u","t","h",","," ","S","a","i","n","t"," ","C","h","a","r","l","e","s">>,
     phone |-> <<"(","6","3","6",")"," ","4","4","1","-","6","0","7","4">>],
    [name |-> <<"H","I","G","H"," ","R","I","D","G","E"," ","(","1","2","2",")">>,
     address |-> <<"1","6","8","4"," ","G","r","a","v","o","i","s"," ","R","o","a","d",","," ","H","i","g","h"," ","R","i","d","g","e">>,
     phone |-> <<"(","6","3","6",")"," ","6","7","7","-","5","3","3","9">>],
    [name |-> <<"I","M","P","E","R","I","A","L"," ","(","1","3","3",")">>,
     address |-> <<"1","2","3","8"," ","M","a","i","n"," ","S","t",","," ","I","m","p","e","r","i","a","l">>,
     phone |-> <<"(","6","3","6",")"," ","4","6","4","-","3","3","3","0">>],
    [name |-> <<"M","A","P","L","E","W","O","O","D"," ","(","2","0","4",")">>,
     address |-> <<"3","2","3","8"," ","L","a","c","l","e","d","e"," ","S","t","a","t","i","o","n"," ","R","o","a","d",","," ","M","a","p","l","e","w","o","o","d">>,
     phone |-> <<"(","3","1","4",")"," ","6","4","5","-","1","0","4","4">>],
    [name |-> <<"O","A","K","V","I","L","L","E"," ","(","1","6","6",")">>,
     address |-> <<"3","1","6","4"," ","T","e","l","e","g","r","a","p","h"," ","R","o","a","d",","," ","S","t"," ","L","o","u","i","s">>,
     phone |-> <<"(","3","1","4",")"," ","8","8","7","-","1","0","5","0">>],
    [name |-> <<"O","F","A","L","L","O","N"," ","(","1","7","3",")">>,
     address |-> <<"2","4","2","1"," ","H","i","g","h","w","a","y"," ","K",","," ","O"," ","F","a","l","l","o","n">>,
     phone |-> <<"(","6","3","6",")"," ","2","7","1","-","5","3","0","0">>],
    [name |-> <<"O","L","I","V","E","T","T","E"," ","(","1","7","1",")">>,
     address |-> <<"9","6","5","2"," ","O","l","i","v","e"," ","B","l","v","d",","," ","S","t"," ","L","o","u","i","s">>,
     phone |-> <<"(","3","1","4",")"," ","6","9","2","-","8","2","2","2">>],
    [name |-> <<"O","V","E","R","L","A","N","D"," ","(","1","1","8",")">>,
     address |-> <<"1","0","2","9","2"," ","P","a","g","e"," ","A","v","e","n","u","e",","," ","S","t"," ","L","o","u","i","s">>,
     phone |-> <<"(","3","1","4",")"," ","8","9","0","-","0","8","8","0">>],
    [name |-> <<"P","A","C","I","F","I","C"," ","(","0","1","7",")">>,
     address |-> <<"7","3","0"," ","O","s","a","g","e",","," ","P","a","c","i","f","i","c">>,
     phone |-> <<"(","6","3","6",")"," ","3","9","3","-","4","0","1","1">>],
    [name |-> <<"S","A","I","N","T"," ","C","H","A","R","L","E","S"," ","(","0","5","0",")">>,
     address |-> <<"1","9","8","2"," ","Z","u","m","b","e","h","l"," ","R","d",","," ","S","t"," ","C","h","a","r","l","e","s">>,
     phone |-> <<"(","6","3","6",")"," ","9","4","6","-","4","4","5","6">>],
    [name |-> <<"S","O","U","T","H"," ","C","O","U","N","T","Y"," ","(","1","5","4",")">>,
     address |-> <<"1","1","1"," ","C","o","n","c","o","r","d"," ","P","l","a","z","a"," ","S","h","o","p","p","i","n","g"," ","C","e","n","t","e","r",","," ","S","t"," ","L","o","u","i","s">>,
     phone |-> <<"(","3","1","4",")"," ","8","4","3","-","5","2","2","3">>],
    [name |-> <<"S","O","U","T","H"," ","K","I","N","G","S","H","I","G","H","W","A","Y"," ","(","2","0","0",")">>,
     address |-> <<"4","6","2","8"," ","S","o","u","t","h"," ","K","i","n","g","s","h","i","g","h","w","a","y",","," ","S","t"," ","L","o","u","i","s">>,
     phone |-> <<"(","3","1","4",")"," ","7","5","2","-","3","1","7","7">>],
    [name |-> <<"W","E","S","T"," ","C","O","U","N","T","Y"," ","(","1","4","9",")">>,
     address |-> <<"1","5","5","3","3"," ","M","a","n","c","h","e","s","t","e","r"," ","R","o","a","d",","," ","B","a","l","l","w","i","n">>,
     phone |-> <<"(","6","3","6",")"," ","2","3","0","-","5","0","4","1">>]
  >>

ScenarioOffices == <<permitDmvs[1], permitDmvs[6]>>

\* the template literal `${d.name} ${d.address} ${d.phone}`
haystack(d) == d.name \o <<" ">> \o d.address \o <<" ">> \o d.phone

\* variant: the query is not trimmed
filterDmvsNoTrim(permitDmvsArg, query) ==
  LET q == toLowerCase(query)
  IN  IF q = <<>> THEN permitDmvsArg
      ELSE SelectSeq(permitDmvsArg,
                     LAMBDA d : includes(toLowerCase(haystack(d)), q))

\* variant: the office text is not lower-cased
filterDmvsCaseSensitive(permitDmvsArg, query) ==
  LET q == toLowerCase(trim(query))
  IN  IF q = <<>> THEN permitDmvsArg
      ELSE SelectSeq(permitDmvsArg, LAMBDA d : includes(haystack(d), q))

\* variant: only the name is searched
filterDmvsNameOnly(permitDmvsArg, query) ==
  LET q == toLowerCase(trim(query))
  IN  IF q = <<>> THEN permitDmvsArg
      ELSE SelectSeq(permitDmvsArg, LAMBDA d : includes(toLowerCase(d.name), q))

\* filterDmvs
filterDmvs(permitDmvsArg, query) ==
  LET q == toLowerCase(trim(query))
  IN  IF q = <<>> THEN permitDmvsArg
      ELSE SelectSeq(permitDmvsArg,
                     LAMBDA d : includes(toLowerCase(haystack(d)), q))

----------------------------------------------------------------------------
(* JavaScript values and JSON text.                                        *)

MaxComments == 200

GeneralComment == <<"G","e","n","e","r","a","l"," ","C","o","m","m","e","n","t">>
RequestToEditSteps == <<"R","e","q","u","e","s","t"," ","t","o"," ","E","d","i","t"," ","S","t","e","p","s">>
Kinds == {GeneralComment, RequestToEditSteps}

\* A JavaScript value held by a property: undefined, null, a string, a finite
\* number, Infinity or a boolean.
JsUndefined == [t |-> "undefined", s |-> <<>>, n |-> 0]
JsNull == [t |-> "null", s |-> <<>>, n |-> 0]
JsString(s) == [t |-> "string", s |-> s, n |-> 0]
JsNumber(n) == [t |-> "number", s |-> <<>>, n |-> n]
JsInfinity == [t |-> "infinity", s |-> <<>>, n |-> 0]
JsTrue == [t |-> "boolean", s |-> <<>>, n |-> 0]

\* the typeof operator
typeof(v) ==
  CASE v.t = "undefined" -> "undefined"
    [] v.t = "null" -> "object"
    [] v.t = "string" -> "string"
    [] v.t \in {"number", "infinity"} -> "number"
    [] v.t = "boolean" -> "boolean"

\* An element of a parsed array: an object with the three properties read by
\* the shape check (a property it lacks is undefined), null, or a primitive.
JsObject(ty, tx, ca) == [j |-> "object", type |-> ty, text |-> tx, createdAt |-> ca]
JsNullElem == [j |-> "null", type |-> JsUndefined, text |-> JsUndefined,
               createdAt |-> JsUndefined]
JsPrimitive == [j |-> "primitive", type |-> JsUndefined, text |-> JsUndefined,
                createdAt |-> JsUndefined]

\* A token of JSON text for a property: the property is absent, or its value is
\* null, a string, a number literal, a number literal too large for a double
\* (such as 1e999) or true.
TokAbsent == [t |-> "absent", s |-> <<>>, n |-> 0]
TokNull == [t |-> "null", s |-> <<>>, n |-> 0]
TokString(s) == [t |-> "string", s |-> s, n |-> 0]
TokNumber(n) == [t |-> "number", s |-> <<>>, n |-> n]
TokOverflow == [t |-> "overflow", s |-> <<>>, n |-> 0]
TokTrue == [t |-> "true", s |-> <<>>, n |-> 0]

JsonObject(ty, tx, ca) == [j |-> "object", type |-> ty, text |-> tx, createdAt |-> ca]
JsonNullElem == [j |-> "null", type |-> TokAbsent, text |-> TokAbsent,
                 createdAt |-> TokAbsent]
JsonPrimitive == [j |-> "primitive", type |-> TokAbsent, text |-> TokAbsent,
                  createdAt |-> TokAbsent]

\* The value of the storage slot: absent (getItem returns null), the empty
\* string, text that is not JSON, JSON text of a value that is no array, or
\* JSON text of an array.
AbsentDoc == [k |-> "absent", items |-> <<>>]
EmptyDoc == [k |-> "empty", items |-> <<>>]
InvalidDoc == [k |-> "invalid", items |-> <<>>]
NonArrayDoc == [k |-> "nonarray", items |-> <<>>]
ArrayDoc(items) == [k |-> "array", items |-> items]

\* JSON.parse of one property token
parseValue(tok) ==
  CASE tok.t = "absent" -> JsUndefined
    [] tok.t = "null" -> JsNull
    [] tok.t = "string" -> JsString(tok.s)
    [] tok.t = "number" -> JsNumber(tok.n)
    [] tok.t = "overflow" -> JsInfinity
    [] tok.t = "true" -> JsTrue

parseElem(e) ==
  [j |-> e.j, type |-> parseValue(e.type), text |-> parseValue(e.text),
   createdAt |-> parseValue(e.createdAt)]

\* JSON.parse of an array's text
parse(items) == [i \in 1..Len(items) |-> parseElem(items[i])]

\* JSON.stringify of one property value: an undefined property is left out and
\* a number that is not finite is written as null.
stringifyValue(v) ==
  CASE v.t = "undefined" -> TokAbsent
    [] v.t = "null" -> TokNull
    [] v.t = "string" -> TokString(v.s)
    [] v.t = "number" -> TokNumber(v.n)
    [] v.t = "infinity" -> TokNull
    [] v.t = "boolean" -> TokTrue

stringifyElem(x) ==
  [j |-> x.j, type |-> stringifyValue(x.type), text |-> stringifyValue(x.text),
   createdAt |-> stringifyValue(x.createdAt)]

\* JSON.stringify(comments)
stringify(list) == ArrayDoc([i \in 1..Len(list) |-> stringifyElem(list[i])])

----------------------------------------------------------------------------
(* The comment store.                                                      *)

\* variant: the text property is not checked
shapeCheckNoText(x) ==
  /\ x.j # "null"
  /\ (x.type = JsString(GeneralComment) \/ x.type = JsString(RequestToEditSteps))
  /\ typeof(x.createdAt) = "number"

\* the "basic shape check" of the load effect
shapeCheck(x) ==
  /\ x.j # "null"
  /\ (x.type = JsString(GeneralComment) \/ x.type = JsString(RequestToEditSteps))
  /\ typeof(x.text) = "string"
  /\ typeof(x.createdAt) = "number"

\* Array.prototype.slice(0, n)
slice(list, n) == SubSeq(list, 1, IF Len(list) < n THEN Len(list) ELSE n)

\* variant: slice(0, 200) before the filter
safeOfSliceFirst(items) == SelectSeq(slice(parse(items), MaxComments), shapeCheck)

\* parsed.filter(shape check).slice(0, 200)
safeOf(items) == slice(SelectSeq(parse(items), shapeCheck), MaxComments)

\* The body of the load effect's try block on the slot value raw: whether it
\* threw, whether it reached setComments, and the list it passed.
loadTry(raw, readThrows) ==
  IF readThrows THEN [threw |-> TRUE, set |-> FALSE, safe |-> <<>>]
  ELSE IF raw.k \in {"absent", "empty"} THEN [threw |-> FALSE, set |-> FALSE, safe |-> <<>>]
  ELSE IF raw.k = "invalid" THEN [threw |-> TRUE, set |-> FALSE, safe |-> <<>>]
  ELSE IF raw.k # "array" THEN [threw |-> FALSE, set |-> FALSE, safe |-> <<>>]
  ELSE [threw |-> FALSE, set |-> TRUE, safe |-> safeOf(raw.items)]

\* variant: no catch around the body
loadEffectNoCatch(raw, readThrows) ==
  LET r == loadTry(raw, readThrows)
  IN  [escaped |-> r.threw, set |-> r.set, safe |-> r.safe]

\* The load effect: try { ... } catch { ignore }.
loadEffect(raw, readThrows) ==
  LET r == loadTry(raw, readThrows)
  IN  [escaped |-> FALSE, set |-> r.set, safe |-> r.safe]

\* variant: the comments found in the slot are kept behind the list
saveEffectMerging(list, slot, writeThrows) ==
  LET found == IF slot.k = "array" THEN safeOf(slot.items) ELSE <<>>
      other == SelectSeq(found, LAMBDA x : \A i \in 1..Len(list) : list[i] # x)
  IN  [storage |-> IF writeThrows THEN slot ELSE stringify(list \o other),
       escaped |-> FALSE]

\* variant: no catch around setItem
saveEffectNoCatch(list, slot, writeThrows) ==
  [storage |-> IF writeThrows THEN slot ELSE stringify(list), escaped |-> writeThrows]

\* The save effect on the list of the render it belongs to: try { setItem(KEY,
\* JSON.stringify(comments)) } catch { ignore }.  The slot afterwards, and
\* whether an exception escaped.
saveEffect(list, slot, writeThrows) ==
  [storage |-> IF writeThrows THEN slot ELSE stringify(list), escaped |-> FALSE]

\* variant: the list is cut to 200 after the new comment is put in front
handleSubmitCapped(ty, txt, prev, t) ==
  LET trimmed == trim(txt)
  IN  IF trimmed = <<>>
      THEN [comments |-> prev, text |-> txt, set |-> FALSE]
      ELSE [comments |-> slice(<<JsObject(JsString(ty), JsString(trimmed), JsNumber(t))>>
                                  \o prev, MaxComments),
            text |-> <<>>, set |-> TRUE]

\* variant: the draft is tested for emptiness before it is trimmed
handleSubmitNoTrim(ty, txt, prev, t) ==
  IF txt = <<>>
  THEN [comments |-> prev, text |-> txt, set |-> FALSE]
  ELSE [comments |-> <<JsObject(JsString(ty), JsString(trim(txt)), JsNumber(t))>> \o prev,
        text |-> <<>>, set |-> TRUE]

\* variant: setText("") is left out
handleSubmitKeepsDraft(ty, txt, prev, t) ==
  LET trimmed == trim(txt)
  IN  IF trimmed = <<>>
      THEN [comments |-> prev, text |-> txt, set |-> FALSE]
      ELSE [comments |-> <<JsObject(JsString(ty), JsString(trimmed), JsNumber(t))>> \o prev,
            text |-> txt, set |-> TRUE]

\* variant: the new comment is put into the list without setComments
handleSubmitNoSet(ty, txt, prev, t) ==
  LET trimmed == trim(txt)
  IN  IF trimmed = <<>>
      THEN [comments |-> prev, text |-> txt, set |-> FALSE]
      ELSE [comments |-> <<JsObject(JsString(ty), JsString(trimmed), JsNumber(t))>> \o prev,
            text |-> <<>>, set |-> FALSE]

\* handleSubmit on the draft txt and kind ty with Date.now() = t: the new list,
\* the new draft, and whether setComments was called.
handleSubmit(ty, txt, prev, t) ==
  LET trimmed == trim(txt)
  IN  IF trimmed = <<>>
      THEN [comments |-> prev, text |-> txt, set |-> FALSE]
      ELSE [comments |-> <<JsObject(JsString(ty), JsString(trimmed), JsNumber(t))>> \o prev,
            text |-> <<>>, set |-> TRUE]

----------------------------------------------------------------------------
(* Inputs.                                                                 *)

MaxStoredLen == 2
ExtraStored == 50
MaxSubmits == 2
MaxReloads == 1
MaxClock == 1
MaxClicks == 3
MaxTabSubmits == 1

Hello == <<"h","e","l","l","o">>

\* what the user may type into the textarea
TextInputs ==
  { <<>>,
    <<" "," "," ">>,
    <<" "," ","h","e","l","l","o"," "," ">> }

\* elements a stored array may hold
ValidElem(i) ==
  JsonObject(TokString(IF i % 2 = 0 THEN GeneralComment ELSE RequestToEditSteps),
             TokString(Hello), TokNumber(i))
MissingText == JsonObject(TokString(GeneralComment), TokAbsent, TokNumber(1))

ElemPool ==
  { ValidElem(1),
    JsonObject(TokString(GeneralComment), TokString(<<>>), TokNumber(2)),
    JsonObject(TokString(RequestToEditSteps), TokString(Hello), TokOverflow),
    MissingText,
    JsonNullElem,
    JsonPrimitive,
    JsonObject(TokString(toLowerCase(GeneralComment)), TokString(Hello), TokNumber(1)),
    JsonObject(TokString(GeneralComment), TokString(Hello), TokString(<<"5">>)) }

SeqsUpTo(S, n) == UNION { [1..m -> S] : m \in 0..n }

\* n stored elements of which the first k fail the shape check
LongItems(n, k) == [i \in 1..n |-> IF i <= k THEN MissingText ELSE ValidElem(i)]

\* every second stored element fails the shape check
MixedItems(n) == [i \in 1..n |-> IF i % 2 = 1 THEN JsonNullElem ELSE ValidElem(i)]

LongDocs ==
  { ArrayDoc(LongItems(MaxComments - 1, 0)),
    ArrayDoc(LongItems(MaxComments, 0)),
    ArrayDoc(LongItems(MaxComments + 1, 0)),
    ArrayDoc(LongItems(MaxComments + ExtraStored, 0)),
    ArrayDoc(LongItems(MaxComments + ExtraStored, ExtraStored)),
    ArrayDoc(LongItems(MaxComments + ExtraStored + 1, ExtraStored)),
    ArrayDoc(MixedItems(MaxComments + MaxComments + ExtraStored)) }

\* slot values a page may find at mount
StoredDocs ==
  {AbsentDoc, EmptyDoc, InvalidDoc, NonArrayDoc}
    \cup { ArrayDoc(items) : items \in SeqsUpTo(ElemPool, MaxStoredLen) }
    \cup LongDocs

\* slot values the sessions with submissions start from
SessionDocs ==
  { AbsentDoc,
    InvalidDoc,
    ArrayDoc(<<ValidElem(1), MissingText>>),
    ArrayDoc(LongItems(MaxComments - 1, 0)) }

----------------------------------------------------------------------------
(* The page as a state machine.                                            *)

NoLoad == [raw |-> AbsentDoc, readThrew |-> FALSE, done |-> FALSE]
NoQueue == [set |-> FALSE, safe |-> <<>>]
\* No save effect has run in this session.  lost: the submitted comments whose
\* save failed and that no later save has written; recovered: how many such
\* comments the latest successful save wrote.
NoWrite == [result |-> "none", lost |-> 0, recovered |-> 0, failed |-> FALSE]
\* No session came before this one.  held: the list in memory when the page
\* was reloaded; saved: every save effect of that session had succeeded.
NoSession == [held |-> <<>>, saved |-> FALSE]
\* Nothing was typed yet.  text: what was typed last; clicks: the clicks on the
\* button since; added: the comments they put into the list; saves: the save
\* effects they caused; written: those of them whose setItem succeeded.
NoTyping == [text |-> <<>>, clicks |-> 0, added |-> 0, saves |-> 0, written |-> 0]
\* The second tab is not open.  Its fields are the state of CommentSection:
\* pc, queued and pendingSave as for the first tab, nsubmit the comments it
\* submitted, wrote how its latest save effect ended.
NoTab ==
  [pc |-> "closed", comments |-> <<>>, text |-> <<>>, type |-> GeneralComment,
   queued |-> NoQueue, pendingSave |-> FALSE, fatal |-> FALSE, nsubmit |-> 0,
   wrote |-> "none"]
\* No tab has written.  writer: the tab whose setItem succeeded last; early: a
\* tab submitted a comment before the other tab had read the slot.
NoRace == [writer |-> 0, early |-> FALSE]
NoOp ==
  [op |-> "other", prev |-> <<>>, rawText |-> <<>>, kind |-> GeneralComment,
   clock |-> 0, stored |-> AbsentDoc, pending |-> FALSE]

\* state of the locator after construction: the query is empty
FilterStart(list) ==
  /\ offices = list
  /\ dmvQuery = <<>>
  /\ filteredDmvs = filterDmvs(list, <<>>)

\* state of CommentSection after construction, before its effects have run
StoreStart(docs) ==
  /\ storage \in docs
  /\ comments = <<>>
  /\ text = <<>>
  /\ type = GeneralComment
  /\ pc = "load"
  /\ queued = NoQueue
  /\ pendingSave = FALSE
  /\ fatal = FALSE
  /\ now = 0
  /\ loaded = NoLoad
  /\ last = NoOp
  /\ nsubmit = 0
  /\ nreload = 0
  /\ wrote = NoWrite
  /\ previous = NoSession
  /\ typed = NoTyping
  /\ tab2 = NoTab
  /\ tabs = NoRace

\* The load effect (runs once, after the first render).
LoadEffect ==
  /\ pc = "load" /\ ~fatal
  /\ \E readThrows \in BOOLEAN :
       LET r == loadEffect(storage, readThrows)
       IN  /\ queued' = [set |-> r.set, safe |-> r.safe]
           /\ fatal' = r.escaped
           /\ loaded' = [raw |-> storage, readThrew |-> readThrows, done |-> FALSE]
  /\ pc' = "save"
  /\ last' = NoOp
  /\ UNCHANGED <<storage, comments, text, type, pendingSave, now, nsubmit, nreload,
                 wrote, previous, typed, tab2, tabs>>
  /\ UNCHANGED filterVars

\* The save effect: after the first render (pc = "save") and after every
\* render in which comments changed (pendingSave).  setItem may throw.
SaveEffect ==
  /\ ~fatal
  /\ pc = "save" \/ (pc = "ready" /\ pendingSave)
  /\ \E writeThrows \in BOOLEAN :
       LET r == saveEffect(comments, storage, writeThrows)
       IN  /\ storage' = r.storage
           /\ fatal' = r.escaped
           /\ wrote' = IF writeThrows
                      THEN [result |-> "failed",
                            lost |-> wrote.lost + (IF last.op = "submit" THEN 1 ELSE 0),
                            recovered |-> 0, failed |-> TRUE]
                      ELSE [result |-> "ok", lost |-> 0, recovered |-> wrote.lost,
                            failed |-> wrote.failed]
           /\ tabs' = IF writeThrows THEN tabs ELSE [tabs EXCEPT !.writer = 1]
           /\ typed' = IF typed.clicks = 0 THEN typed
                      ELSE [typed EXCEPT !.saves = @ + 1,
                                         !.written = @ + (IF writeThrows THEN 0 ELSE 1)]
  /\ pc' = IF pc = "save" THEN (IF queued.set THEN "render" ELSE "ready") ELSE pc
  /\ loaded' = IF pc = "save" /\ ~queued.set THEN [loaded EXCEPT !.done = TRUE] ELSE loaded
  /\ pendingSave' = FALSE
  /\ last' = [NoOp EXCEPT !.op = "save", !.prev = comments, !.stored = storage]
  /\ UNCHANGED <<comments, text, type, queued, now, nsubmit, nreload, previous, tab2>>
  /\ UNCHANGED filterVars

\* The re-render that applies the setComments(safe) queued by the load effect.
Render ==
  /\ pc = "render" /\ ~fatal
  /\ comments' = queued.safe
  /\ queued' = NoQueue
  /\ pendingSave' = TRUE
  /\ pc' = "ready"
  /\ loaded' = [loaded EXCEPT !.done = TRUE]
  /\ last' = [NoOp EXCEPT !.op = "render"]
  /\ UNCHANGED <<storage, text, type, fatal, now, nsubmit, nreload, wrote, previous,
                 typed, tab2, tabs>>
  /\ UNCHANGED filterVars

Idle == pc = "ready" /\ ~pendingSave /\ ~fatal

\* onChange of the textarea
SetText(v) ==
  /\ Idle
  /\ text # v
  /\ text' = v
  /\ typed' = [NoTyping EXCEPT !.text = v]
  /\ last' = NoOp
  /\ UNCHANGED <<storage, comments, type, pc, queued, pendingSave, fatal, now,
                 loaded, nsubmit, nreload, wrote, previous, tab2, tabs>>
  /\ UNCHANGED filterVars

\* onChange of the select
SetType(k) ==
  /\ Idle
  /\ type # k
  /\ type' = k
  /\ last' = NoOp
  /\ UNCHANGED <<storage, comments, text, pc, queued, pendingSave, fatal, now,
                 loaded, nsubmit, nreload, wrote, previous, typed, tab2, tabs>>
  /\ UNCHANGED filterVars

\* onClick of the button: handleSubmit, with Date.now() read from a clock
\* that does not run backwards; a rejected click does not read the clock.
Submit ==
  /\ Idle
  /\ nsubmit < MaxSubmits
  /\ typed.clicks < MaxClicks
  /\ \E t \in now..(IF now < MaxClock /\ trim(text) # <<>> THEN now + 1 ELSE now) :
       LET r == handleSubmit(type, text, comments, t)
       IN  /\ comments' = r.comments
           /\ text' = r.text
           /\ pendingSave' = r.set
           /\ now' = t
           /\ nsubmit' = IF r.set THEN nsubmit + 1 ELSE nsubmit
           /\ typed' = [typed EXCEPT !.clicks = @ + 1,
                                     !.added = @ + Len(r.comments) - Len(comments)]
  /\ last' = [op |-> "submit", prev |-> comments, rawText |-> text, kind |-> type,
              clock |-> now, stored |-> storage, pending |-> pendingSave]
  /\ tabs' = [tabs EXCEPT !.early = @ \/ (comments' # comments /\ tab2.pc \in {"closed", "load"})]
  /\ UNCHANGED <<storage, type, pc, queued, fatal, loaded, nreload, wrote, previous,
                 tab2>>
  /\ UNCHANGED filterVars

\* The page is reloaded: a fresh CommentSection over the same storage slot.
Reload ==
  /\ Idle
  /\ nreload < MaxReloads
  /\ comments' = <<>>
  /\ text' = <<>>
  /\ type' = GeneralComment
  /\ pc' = "load"
  /\ queued' = NoQueue
  /\ loaded' = NoLoad
  /\ last' = NoOp
  /\ nreload' = nreload + 1
  /\ wrote' = NoWrite
  /\ typed' = NoTyping
  /\ previous' = [held |-> comments, saved |-> wrote.result = "ok" /\ ~wrote.failed]
  /\ UNCHANGED <<storage, pendingSave, fatal, now, nsubmit, tab2, tabs>>
  /\ UNCHANGED filterVars

Init == FilterStart(permitDmvs) /\ StoreStart(SessionDocs)

Next ==
  \/ LoadEffect
  \/ SaveEffect
  \/ Render
  \/ \E v \in TextInputs : SetText(v)
  \/ \E k \in Kinds : SetType(k)
  \/ Submit

Spec == Init /\ [][Next]_vars

\* Sessions separated by page reloads.  The first may find a comment whose
\* createdAt is a number literal beyond the range of a double.
OverflowElem == JsonObject(TokString(RequestToEditSteps), TokString(Hello), TokOverflow)
ReloadDocs == SessionDocs \cup {ArrayDoc(<<OverflowElem>>)}
InitReload == FilterStart(permitDmvs) /\ StoreStart(ReloadDocs)
NextReload ==
  \/ LoadEffect
  \/ SaveEffect
  \/ Render
  \/ \E v \in TextInputs \ {<<>>} : SetText(v)
  \/ Submit
  \/ Reload
SpecReload == InitReload /\ [][NextReload]_vars

\* What the second tab leaves alone: the first tab's component.
tab1Vars == <<comments, text, type, pc, queued, pendingSave, fatal, loaded, last,
              nsubmit, nreload, wrote, previous, typed>>

\* A second tab opens the page: a fresh CommentSection.
OpenTab2 ==
  /\ tab2.pc = "closed"
  /\ tab2' = [NoTab EXCEPT !.pc = "load"]
  /\ UNCHANGED <<storage, now, tabs>>
  /\ UNCHANGED tab1Vars
  /\ UNCHANGED filterVars

\* the load effect in the second tab
Tab2LoadEffect ==
  /\ tab2.pc = "load" /\ ~tab2.fatal
  /\ \E readThrows \in BOOLEAN :
       LET r == loadEffect(storage, readThrows)
       IN  tab2' = [tab2 EXCEPT !.queued = [set |-> r.set, safe |-> r.safe],
                                !.fatal = r.escaped,
                                !.pc = "save"]
  /\ UNCHANGED <<storage, now, tabs>>
  /\ UNCHANGED tab1Vars
  /\ UNCHANGED filterVars

\* the save effect in the second tab
Tab2SaveEffect ==
  /\ ~tab2.fatal
  /\ tab2.pc = "save" \/ (tab2.pc = "ready" /\ tab2.pendingSave)
  /\ \E writeThrows \in BOOLEAN :
       LET r == saveEffect(tab2.comments, storage, writeThrows)
       IN  /\ storage' = r.storage
           /\ tab2' = [tab2 EXCEPT
                         !.fatal = r.escaped,
                         !.pc = IF @ = "save"
                                THEN (IF tab2.queued.set THEN "render" ELSE "ready")
                                ELSE @,
                         !.pendingSave = FALSE,
                         !.wrote = IF writeThrows THEN "failed" ELSE "ok"]
           /\ tabs' = IF writeThrows THEN tabs ELSE [tabs EXCEPT !.writer = 2]
  /\ UNCHANGED now
  /\ UNCHANGED tab1Vars
  /\ UNCHANGED filterVars

\* the re-render in the second tab that applies the loaded list
Tab2Render ==
  /\ tab2.pc = "render" /\ ~tab2.fatal
  /\ tab2' = [tab2 EXCEPT !.comments = tab2.queued.safe,
                          !.queued = NoQueue,
                          !.pendingSave = TRUE,
                          !.pc = "ready"]
  /\ UNCHANGED <<storage, now, tabs>>
  /\ UNCHANGED tab1Vars
  /\ UNCHANGED filterVars

Tab2Idle == tab2.pc = "ready" /\ ~tab2.pendingSave /\ ~tab2.fatal

\* onChange of the textarea in the second tab
Tab2SetText(v) ==
  /\ Tab2Idle
  /\ tab2.text # v
  /\ tab2' = [tab2 EXCEPT !.text = v]
  /\ UNCHANGED <<storage, now, tabs>>
  /\ UNCHANGED tab1Vars
  /\ UNCHANGED filterVars

\* onClick of the button in the second tab
Tab2Submit ==
  /\ Tab2Idle
  /\ tab2.nsubmit < MaxTabSubmits
  /\ \E t \in now..(IF now < MaxClock /\ trim(tab2.text) # <<>> THEN now + 1 ELSE now) :
       LET r == handleSubmit(tab2.type, tab2.text, tab2.comments, t)
       IN  /\ tab2' = [tab2 EXCEPT !.comments = r.comments,
                                   !.text = r.text,
                                   !.pendingSave = r.set,
                                   !.nsubmit = IF r.set THEN @ + 1 ELSE @]
           /\ now' = t
           /\ tabs' = [tabs EXCEPT !.early = @ \/ (r.set /\ pc = "load")]
  /\ UNCHANGED storage
  /\ UNCHANGED tab1Vars
  /\ UNCHANGED filterVars

\* Two tabs over one slot; each types its own text.
FromTab1 == <<"o","n","e">>
FromTab2 == <<"t","w","o">>
TabDocs == {AbsentDoc, ArrayDoc(<<ValidElem(1), MissingText>>)}
InitTabs == FilterStart(permitDmvs) /\ StoreStart(TabDocs)
NextTabs ==
  \/ LoadEffect
  \/ SaveEffect
  \/ Render
  \/ SetText(FromTab1)
  \/ (nsubmit < MaxTabSubmits /\ Submit)
  \/ OpenTab2
  \/ Tab2LoadEffect
  \/ Tab2SaveEffect
  \/ Tab2Render
  \/ Tab2SetText(FromTab2)
  \/ Tab2Submit
SpecTabs == InitTabs /\ [][NextTabs]_vars

\* Initialization alone, over every kind of stored value.
InitLoad == FilterStart(permitDmvs) /\ StoreStart(StoredDocs)
NextLoad == LoadEffect \/ SaveEffect \/ Render
SpecLoad == InitLoad /\ [][NextLoad]_vars

----------------------------------------------------------------------------
(* The locator alone, over office lists and queries.                       *)

Gravois == <<"g","r","a","v","o","i","s">>
AreaCode == <<"3","1","4">>

\* queries typed against the page's own list: the dev assertions' five, the
\* scenario's two, and whitespace
NamedQueries ==
  { <<>>,
    <<"A","F","T","O","N">>,
    <<"6","3","1","-","1","3","1","1">>,
    <<"a","f","t","o","n">>,
    <<"G","r","a","v","o","i","s">>,
    Gravois,
    AreaCode,
    <<" ","g","R","A","V","O","I","S"," ","r","D">>,
    <<"(","0","0","3",")"," ","9","5","1","3">>,
    <<" "," "," ">>,
    <<" ","\t","\n">> }

QueryAlphabet == {"a", "A", "1", " ", SharpS}

\* what one edit of the search box can turn the query q into: one more typed
\* character, or a named query pasted over it
Edits(q) ==
  { q \o <<c>> : c \in IF Len(q) < MaxQueryLen THEN QueryAlphabet ELSE {} }
    \cup NamedQueries

OfficePool ==
  { [name |-> n, address |-> a, phone |-> <<"1","1">>] :
      n \in {<<"A">>, <<"a","1">>}, a \in {<<>>, <<"1"," ","a">>} }

OfficeLists == SeqsUpTo(OfficePool, MaxOffices) \cup {permitDmvs, ScenarioOffices}

\* onChange of the search box: setDmvQuery, then the useMemo recomputes.
SetDmvQuery(v) ==
  /\ dmvQuery # v
  /\ dmvQuery' = v
  /\ filteredDmvs' = filterDmvs(offices, v)
  /\ UNCHANGED offices
  /\ UNCHANGED storeVars

InitFilter == (\E list \in OfficeLists : FilterStart(list)) /\ StoreStart({AbsentDoc})
NextFilter == \E v \in Edits(dmvQuery) : SetDmvQuery(v)
SpecFilter == InitFilter /\ [][NextFilter]_vars

----------------------------------------------------------------------------
(* Properties of the locator filter (checked under SpecFilter).            *)

\* q occurs in h at offset k, character by character
OccursAt(h, q, k) == \A j \in 1..Len(q) : h[k + j] = q[j]
Contains(h, q) == \E k \in 0..(Len(h) - Len(q)) : OccursAt(h, q, k)

\* the office's three fields joined by single spaces, lower-cased
LoweredFields(o) == toLowerCase(o.name \o <<" ">> \o o.address \o <<" ">> \o o.phone)

\* positions of the offices that match the trimmed, lower-cased query
MatchingPositions == 
  { i \in 1..Len(offices) : Contains(LoweredFields(offices[i]), toLowerCase(trim(dmvQuery))) }

\* the k-th smallest member of a finite set of numbers
Nth(S, k) == CHOOSE i \in S : Cardinality({j \in S : j <= i}) = k

\* C5: for a query whose trimmed form is non-empty, the filtered list is
\* exactly the offices whose lower-cased "name address phone" contains the
\* lower-cased trimmed query, in their original order, each once; on the
\* two-office scenario list "gravois" gives the AFTON entry alone and "314"
\* gives both entries.
C5_FilterIsMatchingSubsequence ==
  /\ trim(dmvQuery) # <<>> =>
       /\ Len(filteredDmvs) = Cardinality(MatchingPositions)
       /\ \A k \in 1..Len(filteredDmvs) :
            filteredDmvs[k] = offices[Nth(MatchingPositions, k)]
  /\ (offices = ScenarioOffices /\ dmvQuery = Gravois) =>
       filteredDmvs = <<ScenarioOffices[1]>>
  /\ (offices = ScenarioOffices /\ dmvQuery = AreaCode) =>
       filteredDmvs = ScenarioOffices

C5_Witness ==
  /\ offices = ScenarioOffices
  /\ dmvQuery = Gravois
  /\ Len(filteredDmvs) = 1
  /\ filteredDmvs[1].name = permitDmvs[1].name

\* C6: an empty or whitespace-only query returns the office list itself.
C6_BlankQueryReturnsAll ==
  (\A i \in 1..Len(dmvQuery) : dmvQuery[i] \in WhiteSpace) => filteredDmvs = offices

C6_Witness ==
  /\ dmvQuery = <<" ", "\t", "\n">>
  /\ offices = permitDmvs
  /\ filteredDmvs = permitDmvs

\* String.prototype.toUpperCase, one character: a-z map to A-Z and sharp s
\* maps to the two characters "SS" (Unicode SpecialCasing).
toUpperCaseChar(c) ==
  IF \E i \in DOMAIN LowerLetters : LowerLetters[i] = c
  THEN <<UpperLetters[IndexIn(c, LowerLetters)]>>
  ELSE IF c = SharpS THEN <<"S", "S">>
  ELSE <<c>>

RECURSIVE toUpperCase(_)
toUpperCase(s) ==
  IF s = <<>> THEN <<>> ELSE toUpperCaseChar(Head(s)) \o toUpperCase(Tail(s))

\* s and u are the same string up to the case of their letters
CaseVariant(s, u) ==
  /\ Len(s) = Len(u)
  /\ \A j \in 1..Len(s) :
       \/ toLowerCaseChar(s[j]) = toLowerCaseChar(u[j])
       \/ toUpperCaseChar(s[j]) = toUpperCaseChar(u[j])

\* s is a case-variant of a contiguous piece of the string f
VariantOfPiece(s, f) ==
  \E a \in 1..Len(f) : \E b \in a..Len(f) : CaseVariant(s, SubSeq(f, a, b))

VariantOfFieldPiece(s, o) ==
  \/ VariantOfPiece(s, o.name)
  \/ VariantOfPiece(s, o.address)
  \/ VariantOfPiece(s, o.phone)

\* C7: every office of which the (non-empty) query is a case-variant of a
\* piece of its name, address or phone is in the filtered list.
C7_FieldFragmentMatches ==
  \A i \in 1..Len(offices) :
    (dmvQuery # <<>> /\ VariantOfFieldPiece(dmvQuery, offices[i]))
      => \E k \in 1..Len(filteredDmvs) : filteredDmvs[k] = offices[i]

\* a fragment of an address, typed with a leading space and in another case
C7_Witness ==
  /\ offices = permitDmvs
  /\ dmvQuery = <<" ","g","R","A","V","O","I","S"," ","r","D">>
  /\ filteredDmvs = <<permitDmvs[1]>>

\* C8 (as claimed): the query, the upper-cased query and the lower-cased
\* query select the same offices in the same order.
C8_CaseOfQueryIrrelevant ==
  /\ filteredDmvs = filterDmvs(offices, toUpperCase(dmvQuery))
  /\ filteredDmvs = filterDmvs(offices, toLowerCase(dmvQuery))

----------------------------------------------------------------------------
(* Properties of submission (checked under Spec).                          *)

PaddedHello == <<" "," ","h","e","l","l","o"," "," ">>

\* C1: a submission whose trimmed text is non-empty puts exactly one new
\* comment in front of the previous list: its text is the trimmed draft, its
\* kind the selected kind, its createdAt no earlier than the clock before the
\* call, and the rest is the whole previous list in its order, whatever its
\* length.
C1_SubmitPrependsOne ==
  (last.op = "submit" /\ trim(last.rawText) # <<>>) =>
    /\ Len(comments) = Len(last.prev) + 1
    /\ comments[1].j = "object"
    /\ comments[1].text = JsString(trim(last.rawText))
    /\ (last.rawText = PaddedHello => comments[1].text.s = Hello)
    /\ comments[1].type = JsString(last.kind)
    /\ comments[1].createdAt.t = "number"
    /\ comments[1].createdAt.n >= last.clock
    /\ \A i \in 1..Len(last.prev) : comments[i + 1] = last.prev[i]

\* a submission onto a list that already holds 200 comments
C1_Witness ==
  /\ last.op = "submit"
  /\ last.rawText = PaddedHello
  /\ Len(last.prev) = MaxComments
  /\ Len(comments) = MaxComments + 1
  /\ comments[1].text.s = Hello

\* C4 (as claimed): the comment list, in memory and as written to the slot,
\* never holds more than 200 comments.
C4_AtMost200 ==
  /\ Len(comments) <= MaxComments
  /\ Len(storage.items) <= MaxComments

\* C9: a submission whose text is empty or only whitespace changes nothing:
\* the list, the slot, the draft and the kind are as before, no save is
\* scheduled and nothing is thrown.
C9_BlankSubmitIsNoOp ==
  (last.op = "submit" /\ \A i \in 1..Len(last.rawText) : last.rawText[i] \in WhiteSpace) =>
    /\ comments = last.prev
    /\ storage = last.stored
    /\ pendingSave = last.pending
    /\ ~pendingSave
    /\ text = last.rawText
    /\ type = last.kind
    /\ ~fatal

C9_Witness ==
  /\ last.op = "submit"
  /\ last.rawText = <<" ", " ", " ">>
  /\ Len(comments) > 0
  /\ comments = last.prev

----------------------------------------------------------------------------
(* Properties of initialization (checked under SpecLoad).                  *)

\* the stored element satisfies the Comment shape: its kind is one of the two
\* enumerated values, its text is a string, its createdAt is a number
IsStoredComment(e) ==
  /\ e.j = "object"
  /\ e.type.t = "string" /\ e.type.s \in Kinds
  /\ e.text.t = "string"
  /\ e.createdAt.t \in {"number", "overflow"}

\* the number of stored comments among the first i stored elements
Rank(items, i) == Cardinality({j \in 1..i : IsStoredComment(items[j])})

\* the load effect of this mount read text that parses to an array, and the
\* list it produced is in place
LoadedArray == loaded.done /\ ~loaded.readThrew /\ loaded.raw.k = "array"

\* the list holds, in order, the first `limit` stored comments of items
HoldsStoredComments(list, items, limit) ==
  LET n == Rank(items, Len(items))
  IN  /\ Len(list) = (IF n < limit THEN n ELSE limit)
      /\ \A i \in 1..Len(items) :
           (IsStoredComment(items[i]) /\ Rank(items, i) <= limit)
             => list[Rank(items, i)] = parseElem(items[i])

\* C2 (as claimed): the loaded list is exactly the stored elements that
\* satisfy the shape predicate, in order.
C2_LoadKeepsEveryValid ==
  LoadedArray =>
    HoldsStoredComments(comments, loaded.raw.items, Len(loaded.raw.items))

\* C2 (amended): when at most 200 stored elements satisfy the shape predicate
\* the loaded list is exactly those elements, in order; in every case it is
\* a prefix of them, no failing element is kept or repaired, nothing is thrown.
C2_LoadKeepsValidUpToCap ==
  LoadedArray =>
    LET items == loaded.raw.items
    IN  /\ Rank(items, Len(items)) <= MaxComments =>
             HoldsStoredComments(comments, items, Len(items))
        /\ Len(comments) <= Rank(items, Len(items))
        /\ \A i \in 1..Len(items) :
             (IsStoredComment(items[i]) /\ Rank(items, i) <= Len(comments))
               => comments[Rank(items, i)] = parseElem(items[i])
        /\ ~fatal

\* one valid comment and one object without text
C2_Witness ==
  /\ LoadedArray
  /\ loaded.raw.items = <<ValidElem(1), MissingText>>
  /\ comments = <<parseElem(ValidElem(1))>>

\* C3: the loaded list is the first min(200, n) of the n stored elements
\* that satisfy the shape predicate, in order: truncation follows validation.
C3_TruncatesAfterValidating ==
  LoadedArray => HoldsStoredComments(comments, loaded.raw.items, MaxComments)

\* 50 failing elements followed by 200 valid ones: all 200 are loaded, the
\* last from stored position 250
C3_Witness ==
  /\ LoadedArray
  /\ loaded.raw.items = LongItems(MaxComments + ExtraStored, ExtraStored)
  /\ Len(comments) = MaxComments
  /\ comments[MaxComments] = parseElem(ValidElem(MaxComments + ExtraStored))

\* C10: when the slot is absent, holds text that does not parse, holds a
\* value that is no array, or cannot be read, the loaded list is empty and
\* nothing is thrown out of the effect.
C10_UnusableSlotLoadsEmpty ==
  (pc # "load" /\ (loaded.readThrew \/ loaded.raw.k # "array")) =>
    /\ comments = <<>>
    /\ ~queued.set
    /\ ~fatal

C10_Witness ==
  /\ loaded.done
  /\ loaded.raw = InvalidDoc
  /\ ~loaded.readThrew
  /\ pc = "ready"
  /\ comments = <<>>

----------------------------------------------------------------------------
(* Properties of persistence (checked under Spec).                         *)

\* the slot holds JSON text of an array whose elements are those of the list,
\* all of them and in the same order
StoresList(slot, list) ==
  /\ slot.k = "array"
  /\ Len(slot.items) = Len(list)
  /\ \A i \in 1..Len(list) : slot.items[i] = stringifyElem(list[i])

\* C11: every change of the list schedules a save, and once no save is
\* pending and the latest write succeeded the slot holds the serialization
\* of exactly the list in memory.
C11_SlotAgreesAfterSave ==
  /\ (last.op = "submit" /\ comments # last.prev) => pendingSave
  /\ (pc = "ready" /\ ~pendingSave /\ wrote.result = "ok") => StoresList(storage, comments)

\* the save after a second submission has written both new comments
C11_Witness ==
  /\ last.op = "save"
  /\ wrote.result = "ok"
  /\ nsubmit = 2
  /\ Len(comments) >= 2
  /\ StoresList(storage, comments)
  /\ storage # last.stored

\* C12: a failed write is swallowed: the slot is as it was, the list in
\* memory is as the save effect found it, nothing is thrown, the next
\* submission is accepted, and the next successful write stores the whole
\* list, the comments whose write had failed included.
C12_WriteFailureSwallowed ==
  /\ ~fatal
  /\ (last.op = "save" /\ wrote.result = "failed") =>
       /\ storage = last.stored
       /\ comments = last.prev
       /\ (pc = "ready" /\ nsubmit < MaxSubmits /\ typed.clicks < MaxClicks) => ENABLED Submit
  /\ (last.op = "save" /\ wrote.result = "ok" /\ wrote.recovered > 0) =>
       /\ Len(comments) >= wrote.recovered + 1
       /\ StoresList(storage, comments)

\* the write after the first submission failed, the write after the second
\* stored both comments
C12_Witness ==
  /\ last.op = "save"
  /\ wrote.result = "ok"
  /\ wrote.recovered = 1
  /\ Len(comments) = 2
  /\ StoresList(storage, comments)
  /\ Len(last.stored.items) = 0

\* C13: after a session whose save effects all succeeded the page is
\* reloaded and reads the slot: the list the load effect passes to
\* setComments, and the list in memory once it is applied, is the first 200
\* elements of the list the session before held.
C13_ReloadRestoresList ==
  (nreload >= 1 /\ previous.saved /\ ~loaded.readThrew) =>
    /\ pc = "save" => (queued.set /\ queued.safe = slice(previous.held, MaxComments))
    /\ last.op = "render" => comments = slice(previous.held, MaxComments)

\* the Comment shape: a kind of the select, a non-empty text, a number
IsComment(x) ==
  /\ x.j = "object"
  /\ \E k \in Kinds : x.type = JsString(k)
  /\ x.text.t = "string" /\ x.text.s # <<>>
  /\ typeof(x.createdAt) = "number"

\* C14: in every state every element of the list in memory has the Comment
\* shape, with a text that is not empty, whether the load effect kept it or
\* handleSubmit made it.
C14_EveryElementIsComment == \A i \in 1..Len(comments) : IsComment(comments[i])

\* between the load effect and the save effect that writes the loaded list back
MountWindow == pc \in {"save", "render"} \/ (pc = "ready" /\ pendingSave /\ last.op = "render")

\* C16: at every step from the mount until the loaded list is written back,
\* the slot still holds every valid comment that was stored before the mount;
\* the save effect of the first render does not replace them by an empty list.
C16_MountKeepsStoredComments ==
  (MountWindow /\ loaded.raw.k = "array") =>
    /\ storage.k = "array"
    /\ \A i \in 1..Len(loaded.raw.items) :
         IsStoredComment(loaded.raw.items[i]) =>
           \E j \in 1..Len(storage.items) : storage.items[j] = loaded.raw.items[i]

\* the draft and the kind after the last click: cleared by an accepted click,
\* untouched by a rejected one
DraftAfterClick ==
  last.op = "submit" =>
    IF comments # last.prev
    THEN text = <<>> /\ type = last.kind
    ELSE text = last.rawText /\ type = last.kind /\ pendingSave = last.pending

\* C17 as stated: after typing one text that is not the empty string, one or
\* more clicks in a row add exactly one comment and exactly one change of the
\* list is written to the slot.
C17_OneCommentPerTypedText ==
  /\ DraftAfterClick
  /\ (typed.text # <<>> /\ typed.clicks >= 1 /\ ~pendingSave) =>
       typed.added = 1 /\ typed.written = 1

\* C17, amended: after typing one text with a character that is not white
\* space, one or more clicks in a row add exactly one comment and cause exactly
\* one run of the save effect, which writes the list with the new comment in
\* front unless setItem throws; further clicks change nothing.
C17_OneCommentPerNonBlankText ==
  /\ DraftAfterClick
  /\ (trim(typed.text) # <<>> /\ typed.clicks >= 1) =>
       /\ typed.added = 1
       /\ typed.saves + (IF pendingSave THEN 1 ELSE 0) = 1
       /\ Len(comments) >= 1 /\ comments[1].text = JsString(trim(typed.text))
       /\ typed.written = 1 => StoresList(storage, comments)
       /\ (typed.saves = 1 /\ wrote.result = "ok") => typed.written = 1
  /\ (trim(typed.text) = <<>> /\ typed.clicks >= 1) =>
       typed.added = 0 /\ typed.saves = 0 /\ ~pendingSave

C17_Witness ==
  /\ trim(typed.text) # <<>>
  /\ typed.clicks = MaxClicks
  /\ typed.added = 1
  /\ typed.saves = 1
  /\ typed.written = 1
  /\ last.op = "submit" /\ comments = last.prev /\ text = <<>>

\* the slot holds a comment with this text
Stored(txt) == \E j \in 1..Len(storage.items) : storage.items[j].text = TokString(txt)

\* C15: two tabs have both read the slot before either submitted, and each has
\* submitted a comment.  The slot is the list of the tab whose setItem
\* succeeded last, and the comment of the other tab is not in it.
C15_LastWriterWins ==
  (~tabs.early /\ nsubmit >= 1 /\ tab2.nsubmit >= 1) =>
    /\ (tabs.writer = 1 /\ Idle /\ wrote.result = "ok") =>
         StoresList(storage, comments) /\ ~Stored(FromTab2)
    /\ (tabs.writer = 2 /\ Tab2Idle /\ tab2.wrote = "ok") =>
         StoresList(storage, tab2.comments) /\ ~Stored(FromTab1)

C15_Witness ==
  /\ ~tabs.early /\ nsubmit = 1 /\ tab2.nsubmit = 1
  /\ tabs.writer = 2 /\ Tab2Idle /\ tab2.wrote = "ok"
  /\ Idle /\ wrote.result = "ok" /\ ~wrote.failed
  /\ Len(comments) >= 1 /\ comments[1].text = JsString(FromTab1)
  /\ Stored(FromTab2) /\ ~Stored(FromTab1)

====
